---- MODULE Spec2Model ----
(***************************************************************************)
(* Spica (src/spica.py): the wallet and transaction chatbot.               *)
(*                                                                         *)
(* The process is the command loop chatbot() of src/spica.py driven by an  *)
(* operator who types lines on stdin, a ledger RPC endpoint that answers   *)
(* the awaited calls, a language-model backend, and the cache snapshot     *)
(* file response_cache.json that outlives the process.                     *)
(*                                                                         *)
(* A line is modelled by its list of whitespace-separated tokens (what     *)
(* user_input.split() returns); every handler of chatbot() works on that   *)
(* list.  Python floats are modelled by their exact value in tenths, and   *)
(* only amounts that are exact in binary floating point are enumerated.    *)
(***************************************************************************)
EXTENDS Integers, Sequences, FiniteSets, TLC

VARIABLES
    pc,               \* chatbot(): "down" | "prompt" (Prompt.ask) | "await"
    base58,           \* is the global name base58 bound in the module namespace
    wallets,          \* wallets: Dict[str, Keypair]            (spica.py:54)
    current_wallet_g, \* module-level current_wallet            (spica.py:55)
    current_wallet,   \* chatbot()'s local current_wallet       (spica.py:294)
    response_cache,   \* response_cache: dict prompt -> response (spica.py:47-51)
    cache_file,       \* response_cache.json on disk
    totp,             \* the code the TOTP object accepts in the current window
    chat_context,     \* number of entries of chatbot()'s chat_context list
    stdin,            \* lines typed by the operator and not yet read
    typed,            \* number of lines typed so far
    inflight,         \* coroutines suspended on the network
    events,           \* calls made on behalf of the command being served
    outcome,          \* what the command being served reported to the operator
    request,          \* arguments of the last call of a wallet operation
    call,             \* what that call returned and the validators it evaluated
    stored            \* history: every completed cache_response(p, r), latest r per p

vars == << pc, base58, wallets, current_wallet_g, current_wallet, response_cache,
           cache_file, totp, chat_context, stdin, typed, inflight, events,
           outcome, request, call, stored >>

(***************************************************************************)
(* Bounds of the exploration.                                              *)
(***************************************************************************)
MaxCommands == 3      \* lines the operator types in one exploration
MaxPending == 1       \* lines waiting in stdin while the loop is busy

(***************************************************************************)
(* Values.                                                                 *)
(***************************************************************************)
None == "<None>"      \* Python's None (no wallet has this name)

EmptyDict == << >>    \* {} : a function with empty domain

\* dict[key] = value
DictSet(d, k, v) == [x \in (DOMAIN d) \cup {k} |-> IF x = k THEN v ELSE d[x]]

\* dict.get(key)
DictGet(d, k) == IF k \in DOMAIN d THEN d[k] ELSE None

\* Recipient and mint addresses the operator may type.
ADDR_OK   == "9xQeWvG816bUx9EPjHmaT23yvVM2ZWbrrpZb9PusVFin"
ADDR_BAD  == "0000000000000000000000000000000000000000000O"   \* 44 chars, not base58
ADDR_SHORT == "9xQeWvG816bUx9EPjHmaT23y"
MINT_USDC == "EPjFWdd5AufqSSqeM2qN1xzybapC8G4wEGGkZwyTDt1v"   \* a mint with 6 decimals
MINT_NINE == "7vfCXTUXx5WJV5JADk17DUJ4ksgau7utNKj4b963voxs"   \* a mint with 9 decimals

\* The decimals each mint was created with on the ledger.
MintDecimals(mint) == IF mint = MINT_USDC THEN 6 ELSE 9

\* Is the string a base58 encoding of 32 bytes (what PublicKey(str) accepts).
IsPublicKey(s) == s \in {ADDR_OK, MINT_USDC, MINT_NINE}

(***************************************************************************)
(* Python floats: float(text), str(float), comparison with 0 and the       *)
(* scaling int(amount * 10**d).  A float is [kind, tenths]: kind "num"     *)
(* with the value in tenths, or kind "nan".                                *)
(***************************************************************************)
Num(t) == [kind |-> "num", tenths |-> t]
NaN == [kind |-> "nan", tenths |-> 0]
FloatError == [kind |-> "ValueError", tenths |-> 0]

\* float(text); FloatError stands for the ValueError float() raises
float(text) ==
    CASE text \in {"10", "10.0"}  -> Num(100)
      [] text \in {"1.5"}         -> Num(15)
      [] text \in {"0", "0.0"}    -> Num(0)
      [] text \in {"-1", "-1.0"}  -> Num(-10)
      [] text = "nan"             -> NaN
      [] OTHER                    -> FloatError

\* str(amount) for a float
str(f) ==
    CASE f.kind = "nan"  -> "nan"
      [] f.tenths = 100  -> "10.0"
      [] f.tenths = 15   -> "1.5"
      [] f.tenths = 0    -> "0.0"
      [] f.tenths = -10  -> "-1.0"
      [] OTHER           -> "?"

\* A Python int too wide for a 32-bit integer: coef * 10^pow10, kept
\* canonical (coef carries no trailing zero).
RECURSIVE Canon(_, _)
Canon(c, p) ==
    IF c = 0 THEN [coef |-> 0, pow10 |-> 0]
    ELSE IF c % 10 = 0 THEN Canon(c \div 10, p + 1)
    ELSE [coef |-> c, pow10 |-> p]

\* int(amount * 10**d) for a positive float amount: truncation toward zero
ScaleToInt(f, d) ==
    IF d >= 1 THEN Canon(f.tenths, d - 1)
    ELSE Canon(f.tenths \div 10, 0)

(***************************************************************************)
(* Helper functions of src/spica.py.                                       *)
(***************************************************************************)
\* a length check that only caps the length
validate_solana_address_max(address) == Len(address) <= 44

validate_solana_address(address) == Len(address) = 44

validate_transaction_amount(amount) ==
    LET f == float(amount)
    IN  IF f.kind = "ValueError" THEN FALSE
        ELSE f.kind = "num" /\ f.tenths > 0

verify_2fa(code) == code = totp

\* json.dump(response_cache, f): the flat key -> value document
ToJson(d) == { <<k, d[k]>> : k \in DOMAIN d }

\* json.load(f) of a document json.dump wrote
FromJson(doc) == [k \in { e[1] : e \in doc } |-> (CHOOSE e \in doc : e[1] = k)[2]]

\* a snapshot written from the mapping as it was before the insertion
save_cache_before_insert(cache) == [kind |-> "json", doc |-> ToJson(response_cache)]

\* save_cache(): response_cache.json rewritten with the whole mapping
save_cache(cache) == [kind |-> "json", doc |-> ToJson(cache)]

\* get_cached_response(prompt)
get_cached_response(prompt) == DictGet(response_cache, prompt)

\* Python truthiness of an Optional[str]
Truthy(s) == s # None /\ s # ""

(***************************************************************************)
(* Secrets the operator may enter at the getpass prompt of connect_wallet. *)
(***************************************************************************)
Secrets == {"K1", "K2", "SEED32", "junk"}

\* len(base58.b58decode(secret)); -1 stands for the ValueError of a string
\* that is not base58
B58DecodedLen(secret) ==
    CASE secret \in {"K1", "K2"} -> 64
      [] secret = "SEED32"       -> 32
      [] OTHER                   -> -1

\* Keypair.from_secret_key(bytes): the keypair of a 64-byte secret key
Keypair(secret) == [secret_key |-> secret, public_key |-> "pub:" \o secret]

(***************************************************************************)
(* connect_wallet(wallet_name, private_key): the registry after the call   *)
(* and the message printed.  The name base58 is looked up in the module    *)
(* namespace when line 94 runs; unbound, the NameError is caught by the    *)
(* except clause like any other exception of the try block.                *)
(***************************************************************************)
\* a registration that rebinds the registry to the new entry alone
connect_wallet_rebind(wallet_name, private_key) ==
    IF ~base58
    THEN [wallets |-> wallets, printed |-> "connect_failed:NameError"]
    ELSE IF B58DecodedLen(private_key) # 64
    THEN [wallets |-> wallets, printed |-> "connect_failed:ValueError"]
    ELSE [wallets |-> DictSet(EmptyDict, wallet_name, Keypair(private_key)),
          printed |-> "connected"]

connect_wallet(wallet_name, private_key) ==
    IF ~base58
    THEN [wallets |-> wallets, printed |-> "connect_failed:NameError"]
    ELSE IF B58DecodedLen(private_key) # 64
    THEN [wallets |-> wallets, printed |-> "connect_failed:ValueError"]
    ELSE [wallets |-> DictSet(wallets, wallet_name, Keypair(private_key)),
          printed |-> "connected"]

(***************************************************************************)
(* switch_wallet(new_wallet): the value returned.  The name current_wallet *)
(* in its body is the module-level variable of line 55.                    *)
(***************************************************************************)
\* a switch that does not look the name up
switch_wallet_unchecked(new_wallet) == [returns |-> new_wallet, printed |-> "switched"]

switch_wallet(new_wallet) ==
    IF new_wallet \in DOMAIN wallets
    THEN [returns |-> new_wallet, printed |-> "switched"]
    ELSE [returns |-> current_wallet_g, printed |-> "not_found"]

(***************************************************************************)
(* send_solana_transaction(wallet_name, recipient, amount, token_address)  *)
(* up to its await: what it printed, the calls it made, the exception it   *)
(* let escape, and the transaction handed to solana_client.send_transaction*)
(***************************************************************************)
NoTx == [op |-> "none"]

\* no value has been returned (the call is suspended, or it raised)
Unset == "<unset>"

\* the two validators of lines 126 and 130, in the order they are evaluated
BothChecks == << "validate_solana_address", "validate_transaction_amount" >>

\* nothing was called
NoCall == [returned |-> Unset, checks |-> << >>]

\* lines 138-164: the transaction built for the request
BuildTransaction(sender_keypair, recipient, amount, token_address) ==
    IF token_address # None
    THEN [op |-> "send_transaction", variant |-> "token",
          signer |-> sender_keypair, dest |-> recipient, mint |-> token_address,
          amount |-> ScaleToInt(amount, 9), decimals |-> 9]
    ELSE [op |-> "send_transaction", variant |-> "native",
          signer |-> sender_keypair, dest |-> recipient, mint |-> None,
          amount |-> ScaleToInt(amount, 9), decimals |-> 9]

\* the recipient validated before the wallet is looked up
send_solana_transaction_validate_first(wallet_name, recipient, amount, token_address) ==
    IF ~validate_solana_address(recipient)
    THEN [printed |-> "invalid_recipient", events |-> << >>, raised |-> None, tx |-> NoTx,
          returns |-> None, checks |-> << "validate_solana_address" >>]
    ELSE IF wallet_name \notin DOMAIN wallets
    THEN [printed |-> "not_found", events |-> << >>, raised |-> None, tx |-> NoTx,
          returns |-> None, checks |-> << "validate_solana_address" >>]
    ELSE IF ~validate_transaction_amount(str(amount))
    THEN [printed |-> "invalid_amount", events |-> << >>, raised |-> None, tx |-> NoTx,
          returns |-> None, checks |-> BothChecks]
    ELSE IF ~IsPublicKey(recipient) \/ (token_address # None /\ ~IsPublicKey(token_address))
    THEN [printed |-> None, events |-> << >>, raised |-> "ValueError", tx |-> NoTx,
          returns |-> Unset, checks |-> BothChecks]
    ELSE [printed |-> None, events |-> << "sign", "rpc:send_transaction" >>, raised |-> None,
          tx |-> BuildTransaction(wallets[wallet_name], recipient, amount, token_address),
          returns |-> Unset, checks |-> BothChecks]

\* the amount validated before the recipient
send_solana_transaction_amount_first(wallet_name, recipient, amount, token_address) ==
    IF wallet_name \notin DOMAIN wallets
    THEN [printed |-> "not_found", events |-> << >>, raised |-> None, tx |-> NoTx,
          returns |-> None, checks |-> << >>]
    ELSE IF ~validate_transaction_amount(str(amount))
    THEN [printed |-> "invalid_amount", events |-> << >>, raised |-> None, tx |-> NoTx,
          returns |-> None, checks |-> << "validate_transaction_amount" >>]
    ELSE IF ~validate_solana_address(recipient)
    THEN [printed |-> "invalid_recipient", events |-> << >>, raised |-> None, tx |-> NoTx,
          returns |-> None, checks |-> BothChecks]
    ELSE IF ~IsPublicKey(recipient) \/ (token_address # None /\ ~IsPublicKey(token_address))
    THEN [printed |-> None, events |-> << >>, raised |-> "ValueError", tx |-> NoTx,
          returns |-> Unset, checks |-> BothChecks]
    ELSE [printed |-> None, events |-> << "sign", "rpc:send_transaction" >>, raised |-> None,
          tx |-> BuildTransaction(wallets[wallet_name], recipient, amount, token_address),
          returns |-> Unset, checks |-> BothChecks]

send_solana_transaction(wallet_name, recipient, amount, token_address) ==
    IF wallet_name \notin DOMAIN wallets
    THEN [printed |-> "not_found", events |-> << >>, raised |-> None, tx |-> NoTx,
          returns |-> None, checks |-> << >>]
    ELSE IF ~validate_solana_address(recipient)
    THEN [printed |-> "invalid_recipient", events |-> << >>, raised |-> None, tx |-> NoTx,
          returns |-> None, checks |-> << "validate_solana_address" >>]
    ELSE IF ~validate_transaction_amount(str(amount))
    THEN [printed |-> "invalid_amount", events |-> << >>, raised |-> None, tx |-> NoTx,
          returns |-> None, checks |-> BothChecks]
    ELSE IF ~IsPublicKey(recipient) \/ (token_address # None /\ ~IsPublicKey(token_address))
    THEN \* PublicKey(...) raises ValueError, which the except RPCException lets through
         [printed |-> None, events |-> << >>, raised |-> "ValueError", tx |-> NoTx,
          returns |-> Unset, checks |-> BothChecks]
    ELSE [printed |-> None, events |-> << "sign", "rpc:send_transaction" >>, raised |-> None,
          tx |-> BuildTransaction(wallets[wallet_name], recipient, amount, token_address),
          returns |-> Unset, checks |-> BothChecks]

\* get_solana_balance(wallet_name) up to its await (lines 109-114)
get_solana_balance(wallet_name) ==
    IF wallet_name \notin DOMAIN wallets
    THEN [printed |-> "not_found", events |-> << >>, tx |-> NoTx]
    ELSE [printed |-> None, events |-> << "rpc:get_balance" >>,
          tx |-> [op |-> "get_balance", address |-> wallets[wallet_name].public_key]]

\* get_transaction_history(wallet_name) up to its await (lines 172-179)
get_transaction_history(wallet_name) ==
    IF wallet_name \notin DOMAIN wallets
    THEN [printed |-> "not_found", events |-> << >>, tx |-> NoTx]
    ELSE [printed |-> None, events |-> << "rpc:get_signatures" >>,
          tx |-> [op |-> "get_signatures", address |-> wallets[wallet_name].public_key]]

\* get_nfts(wallet_name) up to its await (lines 194-204)
get_nfts(wallet_name) ==
    IF wallet_name \notin DOMAIN wallets
    THEN [printed |-> "not_found", events |-> << >>, tx |-> NoTx]
    ELSE [printed |-> None, events |-> << "http:nfts" >>,
          tx |-> [op |-> "nfts", address |-> wallets[wallet_name].public_key]]

(***************************************************************************)
(* The lines the operator may type, as token lists.  Line 307 unpacks the  *)
(* whole token list, so the command word "send" is the source wallet of    *)
(* every transfer, the second token its amount and the fourth its          *)
(* recipient: the lines below include the documented form                  *)
(* `send <wallet_name> <amount> to <recipient>` and the forms that reach   *)
(* send_solana_transaction with a wallet connected under the name "send".  *)
(***************************************************************************)
Lines ==
    { << "exit" >>, << "help" >>, << "bogus" >>,
      << "connect_wallet", "send" >>, << "connect_wallet", "alice" >>,
      << "connect_wallet" >>,
      << "switch_wallet", "send" >>, << "switch_wallet", "alice" >>,
      << "balance", "send" >>, << "history", "send" >>,
      << "nfts", "send" >>, << "price" >>,
      << "chat", "hi" >>, << "chat" >>,
      << "send", "alice", "1.5", "to", ADDR_OK >>,
      << "send", "10", "to", ADDR_OK >>,
      << "send", "10", "to", ADDR_OK, MINT_USDC >>,
      << "send", "1.5", "to", ADDR_OK, MINT_NINE >>,
      << "send", "10", "to", ADDR_SHORT, MINT_USDC >>,
      << "send", "0", "to", ADDR_SHORT, MINT_USDC >>,
      << "send", "10", "to", ADDR_BAD, MINT_USDC >>,
      << "send", "0", "to", ADDR_OK, MINT_USDC >>,
      << "send", "-1", "to", ADDR_OK, MINT_USDC >>,
      << "send", "nan", "to", ADDR_OK, MINT_USDC >>,
      << "send", "abc", "to", ADDR_OK, MINT_USDC >> }

\* What the language-model backend may answer (after .strip())
BackendAnswers == {"r1", "r2", ""}

\* " ".join(tokens)
RECURSIVE Join(_)
Join(tokens) ==
    IF tokens = << >> THEN ""
    ELSE IF Len(tokens) = 1 THEN tokens[1]
    ELSE tokens[1] \o " " \o Join(Tail(tokens))

NoRequest == [op |-> "none"]

\* a coroutine started as a task and not awaited: the loop goes on at once
FireAndForget == "prompt"

\* `await coroutine` in chatbot(): the loop does not go on to the next
\* Prompt.ask until the coroutine it awaits has returned
AwaitCall == "await"

(***************************************************************************)
(* Initial state: the process is not running; the snapshot file is absent  *)
(* or holds invalid data; base58 is the binding of that name in the module *)
(* namespace (the source binds it nowhere: FALSE is the module as written, *)
(* TRUE the module run with the name supplied).                            *)
(***************************************************************************)
Init ==
    /\ pc = "down"
    /\ base58 \in BOOLEAN
    /\ wallets = EmptyDict
    /\ current_wallet_g = None
    /\ current_wallet = None
    /\ response_cache = EmptyDict
    /\ cache_file \in { [kind |-> "absent", doc |-> {}], [kind |-> "invalid", doc |-> {}] }
    /\ totp = "000000"
    /\ chat_context = 0
    /\ stdin = << >>
    /\ typed = 0
    /\ inflight = << >>
    /\ events = << >>
    /\ outcome = "none"
    /\ request = NoRequest
    /\ call = NoCall
    /\ stored = EmptyDict

\* An uncaught exception leaves chatbot() and asyncio.run: the process ends
Crash(exc) ==
    /\ pc' = "down"
    /\ outcome' = "crash:" \o exc
    /\ stdin' = << >>
    /\ inflight' = << >>

(***************************************************************************)
(* Module load (lines 28-64) and the start of chatbot() (lines 260-264).   *)
(***************************************************************************)
ModuleLoad ==
    /\ pc = "down"
    /\ IF cache_file.kind = "invalid"
       THEN \* json.load raises; nothing catches it
            /\ outcome' = "crash:JSONDecodeError"
            /\ UNCHANGED << pc, wallets, current_wallet_g, current_wallet, response_cache,
                            totp, chat_context, stdin, inflight, events, request,
                            call >>
       ELSE /\ pc' = "prompt"
            /\ response_cache' = IF cache_file.kind = "absent" THEN EmptyDict
                                 ELSE FromJson(cache_file.doc)
            /\ wallets' = EmptyDict
            /\ current_wallet_g' = None
            /\ current_wallet' = None
            /\ totp' = "123456"
            /\ chat_context' = 0
            /\ stdin' = << >>
            /\ inflight' = << >>
            /\ events' = << >>
            /\ outcome' = "welcome"
            /\ request' = NoRequest
            /\ call' = NoCall
    /\ UNCHANGED << base58, cache_file, typed, stored >>

\* The operator types a line; it waits in stdin until Prompt.ask reads it
Type(line) ==
    /\ pc # "down"
    /\ typed < MaxCommands
    /\ Len(stdin) < MaxPending
    /\ stdin' = Append(stdin, line)
    /\ typed' = typed + 1
    /\ UNCHANGED << pc, base58, wallets, current_wallet_g, current_wallet, response_cache,
                    cache_file, totp, chat_context, inflight, events, outcome, request,
                    call, stored >>

\* Prompt.ask returns the next line (line 266)
Reading(parts) ==
    /\ pc = "prompt"
    /\ stdin # << >>
    /\ parts = Head(stdin)

\* lines 267-269
Exit ==
    \E parts \in Lines :
        /\ Reading(parts)
        /\ Join(parts) \in {"exit", "quit"}
        /\ pc' = "down"
        /\ stdin' = << >>
        /\ outcome' = "goodbye"
        /\ events' = << >>
        /\ request' = NoRequest
        /\ call' = NoCall
        /\ UNCHANGED << base58, wallets, current_wallet_g, current_wallet, response_cache,
                        cache_file, totp, chat_context, typed, inflight, stored >>

\* lines 271-286 and 330-331
HelpOrInvalid ==
    \E parts \in Lines :
        /\ Reading(parts)
        /\ Join(parts) \notin {"exit", "quit"}
        /\ \/ Join(parts) = "help" /\ outcome' = "help"
           \/ /\ Join(parts) # "help"
              /\ parts[1] \notin {"connect_wallet", "switch_wallet", "balance", "send",
                                  "history", "nfts", "price", "chat"}
              /\ outcome' = "invalid_command"
        /\ stdin' = Tail(stdin)
        /\ events' = << >>
        /\ request' = NoRequest
        /\ call' = NoCall
        /\ UNCHANGED << pc, base58, wallets, current_wallet_g, current_wallet,
                        response_cache, cache_file, totp, chat_context, typed, inflight,
                        stored >>

\* The command word a line is dispatched on (the startswith chain, 288-331)
Command(parts, word) ==
    /\ Reading(parts)
    /\ Join(parts) \notin {"exit", "quit", "help"}
    /\ parts[1] = word

\* `_, name = user_input.split(maxsplit=1)`: unpacking one token raises ValueError
HasArgument(parts) == Len(parts) >= 2

\* the rest of the line after the command word
Argument(parts) == Join(Tail(parts))

\* lines 288-290 with connect_wallet (90-98); the key is read by getpass
ConnectWallet ==
    \E parts \in Lines :
        /\ Command(parts, "connect_wallet")
        /\ events' = << >>
        /\ IF ~HasArgument(parts)
           THEN /\ Crash("ValueError")
                /\ request' = NoRequest
                /\ call' = NoCall
                /\ UNCHANGED wallets
           ELSE \E private_key \in Secrets :
                    LET r == connect_wallet(Argument(parts), private_key)
                    IN  /\ wallets' = r.wallets
                        /\ outcome' = r.printed
                        /\ request' = [op |-> "connect", wallet_name |-> Argument(parts),
                                       private_key |-> private_key,
                                       replaced |-> Argument(parts) \in DOMAIN wallets]
                        /\ call' = [returned |-> None, checks |-> << >>]
                        /\ stdin' = Tail(stdin)
                        /\ UNCHANGED << pc, inflight >>
        /\ UNCHANGED << base58, current_wallet_g, current_wallet, response_cache,
                        cache_file, totp, chat_context, typed, stored >>

\* lines 292-294 with switch_wallet (100-106)
SwitchWallet ==
    \E parts \in Lines :
        /\ Command(parts, "switch_wallet")
        /\ events' = << >>
        /\ IF ~HasArgument(parts)
           THEN /\ Crash("ValueError")
                /\ request' = NoRequest
                /\ call' = NoCall
                /\ UNCHANGED current_wallet
           ELSE LET r == switch_wallet(Argument(parts))
                IN  /\ current_wallet' = r.returns
                    /\ outcome' = r.printed
                    /\ request' = [op |-> "switch", wallet_name |-> Argument(parts),
                                   before |-> current_wallet]
                    /\ call' = [returned |-> r.returns, checks |-> << >>]
                    /\ stdin' = Tail(stdin)
                    /\ UNCHANGED << pc, inflight >>
        /\ UNCHANGED << base58, wallets, current_wallet_g, response_cache,
                        cache_file, totp, chat_context, typed, stored >>

\* A wallet query that either returns at once or suspends on the network
Query(parts, op, r) ==
    /\ events' = r.events
    /\ request' = [op |-> op, wallet_name |-> Argument(parts)]
    /\ stdin' = Tail(stdin)
    /\ IF r.printed # None
       THEN /\ outcome' = r.printed
            /\ call' = [returned |-> None, checks |-> << >>]
            /\ UNCHANGED << pc, inflight >>
       ELSE /\ outcome' = "pending"
            /\ call' = NoCall
            /\ inflight' = Append(inflight, r.tx)
            /\ pc' = AwaitCall

\* lines 296-300, 311-313, 315-317
WalletQuery ==
    \E parts \in Lines :
        /\ \/ /\ Command(parts, "balance")
              /\ IF HasArgument(parts)
                 THEN Query(parts, "balance", get_solana_balance(Argument(parts)))
                 ELSE Crash("ValueError") /\ events' = << >> /\ request' = NoRequest
                      /\ call' = NoCall
           \/ /\ Command(parts, "history")
              /\ IF HasArgument(parts)
                 THEN Query(parts, "history", get_transaction_history(Argument(parts)))
                 ELSE Crash("ValueError") /\ events' = << >> /\ request' = NoRequest
                      /\ call' = NoCall
           \/ /\ Command(parts, "nfts")
              /\ IF HasArgument(parts)
                 THEN Query(parts, "nfts", get_nfts(Argument(parts)))
                 ELSE Crash("ValueError") /\ events' = << >> /\ request' = NoRequest
                      /\ call' = NoCall
        /\ UNCHANGED << base58, wallets, current_wallet_g, current_wallet, response_cache,
                        cache_file, totp, chat_context, typed, stored >>

\* lines 319-320 with get_sol_price (218-223) up to its await
Price ==
    \E parts \in Lines :
        /\ Command(parts, "price")
        /\ events' = << "http:price" >>
        /\ request' = [op |-> "price"]
        /\ call' = NoCall
        /\ stdin' = Tail(stdin)
        /\ outcome' = "pending"
        /\ inflight' = Append(inflight, [op |-> "price"])
        /\ pc' = AwaitCall
        /\ UNCHANGED << base58, wallets, current_wallet_g, current_wallet, response_cache,
                        cache_file, totp, chat_context, typed, stored >>

(***************************************************************************)
(* lines 302-309: the send command.  The five names of line 307 are        *)
(* unpacked from the whole token list, command word included.              *)
(***************************************************************************)
Send ==
    \E parts \in Lines :
        /\ Command(parts, "send")
        /\ IF Len(parts) < 5
           THEN /\ outcome' = "usage"
                /\ events' = << >>
                /\ request' = NoRequest
                /\ call' = NoCall
                /\ stdin' = Tail(stdin)
                /\ UNCHANGED << pc, inflight >>
           ELSE LET wallet_name == parts[1]
                    amount == parts[2]
                    recipient == parts[4]
                    rest == SubSeq(parts, 5, Len(parts))
                    token_address == IF rest # << >> THEN rest[1] ELSE None
                IN  IF float(amount).kind = "ValueError"
                    THEN /\ Crash("ValueError")
                         /\ events' = << >>
                         /\ call' = NoCall
                         /\ request' = [op |-> "send", wallet_name |-> wallet_name,
                                        recipient |-> recipient, amount_text |-> amount,
                                        token_address |-> token_address, called |-> FALSE]
                    ELSE LET r == send_solana_transaction(wallet_name, recipient,
                                                          float(amount), token_address)
                         IN  /\ events' = r.events
                             /\ call' = [returned |-> r.returns, checks |-> r.checks]
                             /\ request' = [op |-> "send", wallet_name |-> wallet_name,
                                            recipient |-> recipient, amount_text |-> amount,
                                            token_address |-> token_address, called |-> TRUE]
                             /\ IF r.raised # None
                                THEN Crash(r.raised)
                                ELSE /\ stdin' = Tail(stdin)
                                     /\ IF r.printed # None
                                        THEN /\ outcome' = r.printed
                                             /\ UNCHANGED << pc, inflight >>
                                        ELSE /\ outcome' = "pending"
                                             /\ inflight' = Append(inflight, r.tx)
                                             /\ pc' = AwaitCall
        /\ UNCHANGED << base58, wallets, current_wallet_g, current_wallet, response_cache,
                        cache_file, totp, chat_context, typed, stored >>

(***************************************************************************)
(* cache_response(prompt, response) (233-235): the mapping after the       *)
(* insertion; save_cache() then rewrites the snapshot from it.             *)
(***************************************************************************)
\* an insertion that keeps an entry already present (dict.setdefault)
cache_response_keep_first(prompt, response) ==
    IF prompt \in DOMAIN response_cache THEN response_cache
    ELSE DictSet(response_cache, prompt, response)

cache_response(prompt, response) == DictSet(response_cache, prompt, response)

\* an error text kept in the cache like a response
on_backend_error_cached(prompt) == DictSet(response_cache, prompt, "Error")

\* the except clause of get_openai_response (256-257): the mapping is left
\* as it is and the error text is only returned
on_backend_error(prompt) == response_cache

(***************************************************************************)
(* lines 322-328 with get_openai_response (237-257).  The backend call is  *)
(* synchronous: nothing else runs between the lookup and the store.        *)
(***************************************************************************)
Chat ==
    \E parts \in Lines :
        /\ Command(parts, "chat")
        /\ LET prompt == Join(Tail(parts))
               cached_response == get_cached_response(prompt)
           IN  IF Truthy(cached_response)
               THEN /\ outcome' = "chatbot:" \o cached_response
                    /\ events' = << >>
                    /\ request' = [op |-> "chat", prompt |-> prompt,
                                   cached |-> cached_response, source |-> "cache",
                                   response |-> cached_response]
                    /\ UNCHANGED << response_cache, cache_file, stored >>
               ELSE \/ \E generated_text \in BackendAnswers :
                         /\ response_cache' = cache_response(prompt, generated_text)
                         /\ cache_file' = save_cache(response_cache')
                         /\ stored' = DictSet(stored, prompt, generated_text)
                         /\ outcome' = "chatbot:" \o generated_text
                         /\ events' = << "openai" >>
                         /\ request' = [op |-> "chat", prompt |-> prompt,
                                        cached |-> cached_response, source |-> "backend",
                                        response |-> generated_text]
                    \/ /\ outcome' = "chatbot:Error"
                       /\ events' = << "openai" >>
                       /\ request' = [op |-> "chat", prompt |-> prompt,
                                      cached |-> cached_response, source |-> "error",
                                      response |-> "Error"]
                       /\ response_cache' = on_backend_error(prompt)
                       /\ UNCHANGED << cache_file, stored >>
        /\ call' = [returned |-> request'.response, checks |-> << >>]
        /\ chat_context' = chat_context + 2
        /\ stdin' = Tail(stdin)
        /\ UNCHANGED << pc, base58, wallets, current_wallet_g, current_wallet, totp,
                        typed, inflight >>

(***************************************************************************)
(* The network answers a suspended call and the coroutine runs to its end. *)
(* answer: "ok", "RPCException" (the endpoint refused the call) or         *)
(* "transport" (a connection-level exception, which is not RPCException).  *)
(***************************************************************************)
Remove(seq, i) == SubSeq(seq, 1, i - 1) \o SubSeq(seq, i + 1, Len(seq))

\* what the coroutine prints, or the exception it lets escape
Completion(op, answer) ==
    CASE op = "send_transaction" ->
           IF answer = "ok" THEN [printed |-> "submitted", raised |-> None, returns |-> None]
           ELSE IF answer = "RPCException"
           THEN [printed |-> "transaction_failed", raised |-> None, returns |-> None]
           ELSE [printed |-> None, raised |-> "TransportError", returns |-> Unset]
      [] op = "get_balance" ->
           IF answer = "ok" THEN [printed |-> "balance", raised |-> None, returns |-> "lamports / 10**9"]
           ELSE IF answer = "RPCException"
           THEN [printed |-> "balance_error", raised |-> None, returns |-> None]
           ELSE [printed |-> None, raised |-> "TransportError", returns |-> Unset]
      [] op = "get_signatures" ->
           IF answer = "ok" THEN [printed |-> "history", raised |-> None, returns |-> None]
           ELSE IF answer = "RPCException"
           THEN [printed |-> "history_error", raised |-> None, returns |-> None]
           ELSE [printed |-> None, raised |-> "TransportError", returns |-> Unset]
      [] op = "nfts" ->
           IF answer = "ok" THEN [printed |-> "nfts", raised |-> None, returns |-> None]
           ELSE [printed |-> "nfts_error", raised |-> None, returns |-> None]
      [] OTHER ->
           IF answer = "ok" THEN [printed |-> "price", raised |-> None, returns |-> None]
           ELSE [printed |-> "price_error", raised |-> None, returns |-> None]

\* a transfer submitted again when the network refused or dropped it
ResubmitOnFailure(tx, answer) ==
    IF tx.op = "send_transaction" /\ answer # "ok" THEN << tx >> ELSE << >>

\* the calls a coroutine issues after the one it awaited was answered:
\* none (lines 167-170 print the outcome; nothing is sent a second time)
Resubmit(tx, answer) == << >>

Respond ==
    \E i \in 1..Len(inflight), answer \in {"ok", "RPCException", "transport"} :
        LET c == Completion(inflight[i].op, answer)
            again == Resubmit(inflight[i], answer)
        IN  /\ IF again # << >>
               THEN /\ inflight' = Remove(inflight, i) \o again
                    /\ events' = events \o [k \in 1..Len(again) |-> "rpc:" \o again[k].op]
                    /\ UNCHANGED << pc, outcome, stdin, call >>
               ELSE IF c.raised # None
               THEN /\ Crash(c.raised)
                    /\ call' = [call EXCEPT !.returned = c.returns]
                    /\ UNCHANGED events
               ELSE /\ outcome' = c.printed
                    /\ call' = [call EXCEPT !.returned = c.returns]
                    /\ inflight' = Remove(inflight, i)
                    /\ pc' = "prompt"
                    /\ UNCHANGED << stdin, events >>
            /\ UNCHANGED << base58, wallets, current_wallet_g, current_wallet,
                            response_cache, cache_file, totp, chat_context, typed,
                            request, stored >>

Next ==
    \/ ModuleLoad
    \/ \E line \in Lines : Type(line)
    \/ Exit
    \/ HelpOrInvalid
    \/ ConnectWallet
    \/ SwitchWallet
    \/ WalletQuery
    \/ Price
    \/ Send
    \/ Chat
    \/ Respond

Spec == Init /\ [][Next]_vars

(***************************************************************************)
(* Properties.                                                             *)
(***************************************************************************)
Prompts == {"hi", ""}

\* the transfers suspended on solana_client.send_transaction
Submissions == SelectSeq(inflight, LAMBDA t : t.op = "send_transaction")

\* the last command was a call of send_solana_transaction for a registered wallet
TransferFromRegistered ==
    /\ request.op = "send"
    /\ request.called
    /\ request.wallet_name \in DOMAIN wallets

\* C1: in every transfer attempt, solana_client.send_transaction is called
\* only after an explicit affirmative confirmation and an accepted 2FA code
\* were obtained in that attempt.
C1_SubmitOnlyAfterAuthorization ==
    \A i \in 1..Len(events) :
        events[i] = "rpc:send_transaction" =>
            \E j, k \in 1..Len(events) :
                /\ j < k /\ k < i
                /\ events[j] = "confirm:yes"
                /\ events[k] = "verify_2fa:accepted"

C3_UnregisteredNotFound ==
    ( /\ request.op \in {"balance", "send", "history"}
      /\ request.op = "send" => request.called
      /\ request.wallet_name \notin DOMAIN wallets )
    => ( /\ outcome = "not_found"
         /\ events = << >>
         /\ inflight = << >> )

\* C3 witness: a transfer for an unregistered name was refused while another
\* wallet is registered.
C3_Witness ==
    /\ request.op = "send"
    /\ request.called
    /\ request.wallet_name \notin DOMAIN wallets
    /\ DOMAIN wallets # {}
    /\ outcome = "not_found"

\* C4: a transfer from a registered wallet whose recipient is not 44
\* characters long is reported as an invalid recipient; nothing is signed
\* and no network call is made.
C4_BadRecipientRejected ==
    (TransferFromRegistered /\ Len(request.recipient) # 44)
    => ( /\ outcome = "invalid_recipient"
         /\ events = << >>
         /\ inflight = << >> )

\* C4 witness: such a transfer was made and refused.
C4_Witness ==
    /\ TransferFromRegistered
    /\ Len(request.recipient) # 44
    /\ outcome = "invalid_recipient"

\* the amount text is zero, negative or not a number
BadAmountText(text) ==
    LET f == float(text)
    IN  f.kind # "num" \/ f.tenths <= 0

\* C5: a send command whose amount text is zero, negative or not a number
\* is refused with a report to the operator (an invalid amount, or the
\* not-found or invalid-recipient report of a check that runs before the
\* amount check); nothing is signed or submitted.
C5_BadAmountRejected ==
    (request.op = "send" /\ BadAmountText(request.amount_text))
    => ( /\ outcome \in {"not_found", "invalid_recipient", "invalid_amount"}
         /\ (TransferFromRegistered /\ Len(request.recipient) = 44)
                => outcome = "invalid_amount"
         /\ events = << >>
         /\ inflight = << >> )

\* C6: after switch_wallet <name> the pointer is name when name is
\* registered; otherwise not-found is reported and the pointer has the value
\* it had before the command.
C6_SwitchKeepsPointerOnFailure ==
    request.op = "switch" =>
        IF request.wallet_name \in DOMAIN wallets
        THEN current_wallet = request.wallet_name /\ outcome = "switched"
        ELSE current_wallet = request.before /\ outcome = "not_found"

\* C7: once a response r has been stored for a prompt p, a lookup of p gives
\* r (also when p held another response before), and the step leaves the
\* lookup of every other prompt as it was.
C7_StoreThenLookup ==
    [][ (request'.op = "chat" /\ request'.source = "backend")
        => /\ DictGet(response_cache', request'.prompt) = request'.response
           /\ \A q \in Prompts \ {request'.prompt} :
                  DictGet(response_cache', q) = DictGet(response_cache, q) ]_vars

\* C7 witness: a response was stored over an earlier response for the same
\* prompt, with another prompt in the cache.
C7_Witness ==
    /\ request.op = "chat"
    /\ request.source = "backend"
    /\ request.cached = ""
    /\ request.response = "r2"
    /\ get_cached_response(request.prompt) = "r2"
    /\ DOMAIN response_cache = Prompts

\* C8: a start of the process with an invalid snapshot file does not raise:
\* the process runs with an empty cache.
C8_CorruptSnapshotNonFatal ==
    (cache_file.kind = "invalid" /\ outcome # "none")
    => (pc # "down" /\ outcome # "crash:JSONDecodeError" /\ response_cache = EmptyDict)

\* C9: while the process runs, the snapshot file holds exactly the in-memory
\* mapping, and the mapping holds, for every prompt ever stored (in this
\* run or an earlier one), the latest response stored for it.
C9_WriteThrough ==
    pc # "down" =>
        /\ cache_file.kind # "invalid"
        /\ cache_file.kind = "absent" => response_cache = EmptyDict
        /\ cache_file.kind = "json" => FromJson(cache_file.doc) = response_cache
        /\ DOMAIN response_cache = DOMAIN stored
        /\ \A p \in DOMAIN stored : get_cached_response(p) = stored[p]

\* C9 witness: the process was restarted and reloaded entries stored by an
\* earlier run.
C9_Witness ==
    /\ pc = "prompt"
    /\ outcome = "welcome"
    /\ DOMAIN stored = Prompts
    /\ response_cache = stored

\* C10: a token transfer in flight carries amount * 10^decimals, with the
\* decimals of the token named in the request.
C10_TokenAmountUsesDecimals ==
    \A i \in 1..Len(inflight) :
        (inflight[i].op = "send_transaction" /\ inflight[i].variant = "token")
        => inflight[i].amount =
               ScaleToInt(float(request.amount_text), MintDecimals(inflight[i].mint))

\* C11: after connect_wallet <name> with a secret that decodes to 64 bytes
\* the wallet is registered under name with the keypair of that secret; with
\* any other secret the connect fails as invalid key material.
C11_ConnectBySecretLength ==
    request.op = "connect" =>
        IF B58DecodedLen(request.private_key) = 64
        THEN /\ outcome = "connected"
             /\ request.wallet_name \in DOMAIN wallets
             /\ wallets[request.wallet_name] = Keypair(request.private_key)
        ELSE outcome = "connect_failed:ValueError"

\* the reports of a transfer that did not succeed
TransferFailures == {"not_found", "invalid_recipient", "invalid_amount", "transaction_failed"}

\* C12: a transfer that failed returns to its caller a value different from
\* the value a submitted transfer returns.
C12_FailureDistinctFromSuccess ==
    (request.op = "send" /\ request.called /\ outcome \in TransferFailures)
    => call.returned # Completion("send_transaction", "ok").returns

\* the amount text is a number that is zero or negative
NonPositiveText(text) == float(text).kind = "num" /\ float(text).tenths <= 0

\* C13: a transfer from a registered wallet with a malformed recipient and a
\* non-positive amount is reported as an invalid recipient, and the amount
\* validator is not evaluated for it.
C13_RecipientCheckedFirst ==
    ( /\ TransferFromRegistered
      /\ Len(request.recipient) # 44
      /\ NonPositiveText(request.amount_text) )
    => ( /\ outcome = "invalid_recipient"
         /\ call.checks = << "validate_solana_address" >> )

\* C13 witness: such a transfer was made and reported as an invalid recipient.
C13_Witness ==
    /\ TransferFromRegistered
    /\ Len(request.recipient) # 44
    /\ NonPositiveText(request.amount_text)
    /\ outcome = "invalid_recipient"

\* number of occurrences of e in seq
Count(seq, e) == Cardinality({ i \in 1..Len(seq) : seq[i] = e })

\* C14: one transfer calls solana_client.send_transaction at most once; when
\* the call fails the failure is reported (or raised) and no submission is
\* left in flight.
C14_AtMostOneSubmit ==
    /\ Count(events, "rpc:send_transaction") <= 1
    /\ (request.op = "send" /\ outcome \in {"transaction_failed", "crash:TransportError"})
          => (inflight = << >> /\ Count(events, "rpc:send_transaction") = 1)

\* C14 witness: a submission was refused by the endpoint and reported.
C14_Witness ==
    /\ request.op = "send"
    /\ outcome = "transaction_failed"
    /\ events = << "sign", "rpc:send_transaction" >>
    /\ pc = "prompt"

\* C15: a chat whose prompt has a stored response, whatever its text, is
\* answered with it and the backend is not called.
C15_CacheConsultedFirst ==
    (request.op = "chat" /\ request.cached # None)
    => ( /\ request.source = "cache"
         /\ request.response = request.cached
         /\ events = << >> )

WalletNames == {"send", "alice"}

\* C17: a step that serves connect_wallet <name> leaves both current-wallet
\* variables and every entry under another name as they were; when it
\* succeeds the entry under name is the new keypair, when it fails the
\* registry is unchanged.
C17_ConnectFrame ==
    [][ (pc = "prompt" /\ request'.op = "connect" /\ stdin # << >> /\ stdin' = Tail(stdin))
        => /\ current_wallet' = current_wallet
           /\ current_wallet_g' = current_wallet_g
           /\ \A n \in WalletNames \ {request'.wallet_name} :
                  /\ (n \in DOMAIN wallets') = (n \in DOMAIN wallets)
                  /\ n \in DOMAIN wallets => wallets'[n] = wallets[n]
           /\ IF outcome' = "connected"
              THEN /\ request'.wallet_name \in DOMAIN wallets'
                   /\ wallets'[request'.wallet_name] = Keypair(request'.private_key)
              ELSE wallets' = wallets ]_vars

\* C17 witness: a connect replaced the entry of its name while another
\* wallet is registered.
C17_Witness ==
    /\ request.op = "connect"
    /\ outcome = "connected"
    /\ request.replaced
    /\ DOMAIN wallets = WalletNames
    /\ wallets[request.wallet_name] = Keypair(request.private_key)

\* C18: every response in the cache is an answer of the backend, and after a
\* chat whose backend call failed the prompt has no response the query path
\* would return, so the next chat with it calls the backend again.
C18_ErrorsNotCached ==
    /\ \A p \in DOMAIN response_cache : response_cache[p] \in BackendAnswers
    /\ (request.op = "chat" /\ request.source = "error")
          => ~Truthy(get_cached_response(request.prompt))

\* C18 witness: a backend call failed for a prompt while another prompt has
\* a stored response.
C18_Witness ==
    /\ request.op = "chat"
    /\ request.source = "error"
    /\ outcome = "chatbot:Error"
    /\ request.prompt \notin DOMAIN response_cache
    /\ DOMAIN response_cache # {}

\* C19: each current-wallet variable is None or the name of a registered
\* wallet.
C19_PointerRegisteredOrUnset ==
    /\ current_wallet = None \/ current_wallet \in DOMAIN wallets
    /\ current_wallet_g = None \/ current_wallet_g \in DOMAIN wallets

\* C19 witness: the pointer names a wallet and a failed connect followed.
C19_Witness ==
    /\ current_wallet \in DOMAIN wallets
    /\ request.op = "connect"
    /\ outcome # "connected"

\* C20: once started, the command loop ends only on exit or quit.
C20_LoopEndsOnlyOnExit ==
    (pc = "down" /\ outcome \notin {"none", "crash:JSONDecodeError"})
    => outcome = "goodbye"

====
